---- MODULE Spec2Model ----
(***************************************************************************)
(* Model of getproblem.py: one requests.post of a fixed JSON payload to a  *)
(* fixed URL with timeout=10, followed by print(response.json()) or one of *)
(* the two except handlers.                                                *)
(*                                                                         *)
(* The script is a straight line, so the state machine is the program      *)
(* counter of the script plus what happens inside the one library call     *)
(* requests.post(url, headers=headers, data=json.dumps(data), timeout=10): *)
(* connecting, waiting for the response head, downloading the body,        *)
(* following redirects (allow_redirects defaults to True for POST), and    *)
(* the exceptions the call can raise.  Time is a discrete clock.           *)
(***************************************************************************)
EXTENDS Integers, Sequences, FiniteSets, TLC

VARIABLES
    pc,          \* position of the script: start, in_post, returned, raised, done, crashed
    data,        \* the module-level dict `data` (lines 25-36)
    postCalls,   \* number of times line 39 has called requests.post
    issued,      \* number of HTTP requests put on the wire by that call
    firstReq,    \* the request the script itself built (line 39)
    lastReq,     \* the request now on the wire (differs from firstReq after a redirect)
    phase,       \* inside requests.post: none, connect, headers, body
    idle,        \* clock ticks since the socket last made progress
    elapsed,     \* clock ticks since requests.post was called
    chunks,      \* partial reads seen so far (bounded)
    status,      \* status code of the response whose body is being received
    redirects,   \* redirects followed so far (len(resp.history))
    heads,       \* complete response heads received so far, redirects included
    response,    \* the Response object requests.post returned
    exc,         \* the exception propagating out of the try body, or NoExc
    stdout       \* sequence of messages written by print

vars == <<pc, data, postCalls, issued, firstReq, lastReq, phase, idle, elapsed,
          chunks, status, redirects, heads, response, exc, stdout>>

----------------------------------------------------------------------------
(* Bounds of the model and constants of the program.                       *)

\* faulty variant of TIMEOUT: another deadline is passed to requests.post
TIMEOUT_11 == 10 + 1

\* timeout=10 on line 39
TIMEOUT == 10

\* requests' Session.max_redirects default (DEFAULT_REDIRECT_LIMIT), in force
\* because line 39 passes no session and no allow_redirects
DEFAULT_REDIRECT_LIMIT == 30

\* the clock stops being advanced after this many ticks
MaxElapsed == 12

\* at most this many partial reads (progress without completion) per run
MaxChunks == 1

----------------------------------------------------------------------------
(* Python values.  Scalars are [t, s, n]; a dict is [t, items] with items  *)
(* the sequence of <<key, value>> pairs in insertion order.                *)

PyInt(n)  == [t |-> "int",  s |-> "", n |-> n]
PyBool(b) == [t |-> "bool", s |-> "", n |-> IF b THEN 1 ELSE 0]
PyStr(s)  == [t |-> "str",  s |-> s,  n |-> 0]
PyNone    == [t |-> "none", s |-> "", n |-> 0]
PyDict(items) == [t |-> "dict", items |-> items]

\* d[k] = v on a dict: replaces in place, or appends a new key
RECURSIVE DictSet(_, _, _)
DictSet(items, k, v) ==
    IF items = <<>> THEN << <<k, v>> >>
    ELSE IF Head(items)[1] = k THEN << <<k, v>> >> \o Tail(items)
    ELSE <<Head(items)>> \o DictSet(Tail(items), k, v)

DictKeys(items) == {items[i][1] : i \in 1..Len(items)}
DictGet(items, k) == items[CHOOSE i \in 1..Len(items) : items[i][1] = k][2]

\* Python's == on two dicts: same keys, equal values, order irrelevant
DictEq(a, b) ==
    /\ DictKeys(a) = DictKeys(b)
    /\ Len(a) = Cardinality(DictKeys(a))
    /\ Len(b) = Cardinality(DictKeys(b))
    /\ \A k \in DictKeys(a) : DictGet(a, k) = DictGet(b, k)

\* lines 19-23
url == [scheme |-> "http", host |-> "162.105.151.213", port |-> 2000,
        path |-> "/api/problem/getProblem"]

headers == << <<"Content-Type", "application/json">> >>

\* lines 25-36
dataLiteral ==
    << <<"displayId", PyInt(1002)>>,
       <<"discussionCount", PyBool(TRUE)>>,
       <<"judgeInfo", PyBool(TRUE)>>,
       <<"judgeInfoToBePreprocessed", PyBool(TRUE)>>,
       <<"lastSubmissionAndLastAcceptedSubmission", PyBool(TRUE)>>,
       <<"localizedContentsOfLocale", PyStr("zh_CN")>>,
       <<"permissionOfCurrentUser", PyBool(TRUE)>>,
       <<"samples", PyBool(TRUE)>>,
       <<"statistics", PyBool(TRUE)>>,
       <<"tagsOfLocale", PyStr("zh_CN")>> >>

----------------------------------------------------------------------------
(* JSON text, as its sequence of lexical tokens [k, s, n]:                 *)
(*   punct  { } : ,      str  a double-quoted string      num  an integer  *)
(*   lit    true false null        junk  anything that is no JSON token    *)

Tok(k, s, n) == [k |-> k, s |-> s, n |-> n]
LBRACE == Tok("punct", "{", 0)
RBRACE == Tok("punct", "}", 0)
COLON  == Tok("punct", ":", 0)
COMMA  == Tok("punct", ",", 0)


\* faulty variant of DumpScalar: Python's spelling of the booleans on the wire
DumpScalarPythonBool(v) ==
    CASE v.t = "int"  -> <<Tok("num", "", v.n)>>
      [] v.t = "bool" -> <<Tok("lit", IF v.n = 1 THEN "True" ELSE "False", 0)>>
      [] v.t = "str"  -> <<Tok("str", v.s, 0)>>
      [] v.t = "none" -> <<Tok("lit", "null", 0)>>

\* json.dumps of a scalar: True -> true, None -> null, str -> "..."
DumpScalar(v) ==
    CASE v.t = "int"  -> <<Tok("num", "", v.n)>>
      [] v.t = "bool" -> <<Tok("lit", IF v.n = 1 THEN "true" ELSE "false", 0)>>
      [] v.t = "str"  -> <<Tok("str", v.s, 0)>>
      [] v.t = "none" -> <<Tok("lit", "null", 0)>>

RECURSIVE DumpItems(_)
DumpItems(items) ==
    IF items = <<>> THEN <<>>
    ELSE <<Tok("str", Head(items)[1], 0), COLON>> \o DumpScalar(Head(items)[2])
         \o (IF Tail(items) = <<>> THEN <<>> ELSE <<COMMA>>)
         \o DumpItems(Tail(items))

\* json.dumps(obj), line 39
JsonDumps(v) ==
    IF v.t = "dict" THEN <<LBRACE>> \o DumpItems(v.items) \o <<RBRACE>>
    ELSE DumpScalar(v)

IsScalarTok(tok) ==
    \/ tok.k \in {"num", "str"}
    \/ tok.k = "lit" /\ tok.s \in {"true", "false", "null"}


\* faulty variant of LoadScalar: every literal decodes to True
LoadScalarAllTrue(tok) ==
    CASE tok.k = "num" -> PyInt(tok.n)
      [] tok.k = "str" -> PyStr(tok.s)
      [] tok.k = "lit" -> PyBool(TRUE)
      [] OTHER -> PyNone

LoadScalar(tok) ==
    CASE tok.k = "num" -> PyInt(tok.n)
      [] tok.k = "str" -> PyStr(tok.s)
      [] tok.k = "lit" /\ tok.s = "true"  -> PyBool(TRUE)
      [] tok.k = "lit" /\ tok.s = "false" -> PyBool(FALSE)
      [] OTHER -> PyNone

\* the members of an object, inner = the tokens between the braces
MembersOk(inner) ==
    /\ Len(inner) % 4 = 3
    /\ \A i \in 1..Len(inner) :
          CASE i % 4 = 1 -> inner[i].k = "str"
            [] i % 4 = 2 -> inner[i] = COLON
            [] i % 4 = 3 -> IsScalarTok(inner[i])
            [] OTHER     -> inner[i] = COMMA

RECURSIVE LoadMembers(_, _)
LoadMembers(inner, acc) ==
    IF Len(inner) < 3 THEN acc
    ELSE LoadMembers(SubSeq(inner, 5, Len(inner)),
                     DictSet(acc, inner[1].s, LoadScalar(inner[3])))

\* response.json(), line 40: [ok, value]; ok = FALSE is the decoding failure
JsonLoads(toks) ==
    IF Len(toks) = 1 /\ IsScalarTok(toks[1])
    THEN [ok |-> TRUE, value |-> LoadScalar(toks[1])]
    ELSE IF Len(toks) >= 2 /\ toks[1] = LBRACE /\ toks[Len(toks)] = RBRACE
    THEN LET inner == SubSeq(toks, 2, Len(toks) - 1)
         IN IF inner = <<>> THEN [ok |-> TRUE, value |-> PyDict(<<>>)]
            ELSE IF MembersOk(inner)
            THEN [ok |-> TRUE, value |-> PyDict(LoadMembers(inner, <<>>))]
            ELSE [ok |-> FALSE, value |-> PyNone]
    ELSE [ok |-> FALSE, value |-> PyNone]

\* repr() of a scalar inside a container: True/False/None, 'single quotes'
ReprScalar(v) ==
    CASE v.t = "int"  -> Tok("num", "", v.n)
      [] v.t = "bool" -> Tok("lit", IF v.n = 1 THEN "True" ELSE "False", 0)
      [] v.t = "str"  -> Tok("sq", v.s, 0)
      [] v.t = "none" -> Tok("lit", "None", 0)

RECURSIVE ReprItems(_)
ReprItems(items) ==
    IF items = <<>> THEN <<>>
    ELSE <<Tok("sq", Head(items)[1], 0), COLON, ReprScalar(Head(items)[2])>>
         \o (IF Tail(items) = <<>> THEN <<>> ELSE <<COMMA>>)
         \o ReprItems(Tail(items))

\* str(obj), what print writes (line 40): a top-level str is written raw
PyStrOf(v) ==
    CASE v.t = "dict" -> <<LBRACE>> \o ReprItems(v.items) \o <<RBRACE>>
      [] v.t = "str"  -> <<Tok("raw", v.s, 0)>>
      [] OTHER        -> <<ReprScalar(v)>>

----------------------------------------------------------------------------
(* Standard output.  A message is [text, detail, repr]: the fixed text of  *)
(* the print, the interpolated error description, and the tokens of a      *)
(* printed Python value.                                                   *)

\* "请求超时" (line 42), written by code point
TIMEOUT_MSG == "U+8BF7 U+6C42 U+8D85 U+65F6"
\* "请求错误: " (line 44), written by code point
ERROR_PREFIX == "U+8BF7 U+6C42 U+9519 U+8BEF: "

TimeoutMessage    == [text |-> TIMEOUT_MSG, detail |-> "", repr |-> <<>>]

\* faulty variant of ErrorMessage: the description is not interpolated
ErrorMessageNoDetail(e) == [text |-> ERROR_PREFIX, detail |-> "", repr |-> <<>>]

ErrorMessage(e)   == [text |-> ERROR_PREFIX, detail |-> e.msg, repr |-> <<>>]
ValueMessage(v)   == [text |-> "", detail |-> "", repr |-> PyStrOf(v)]

IsTimeoutMessage(m) == m.text = TIMEOUT_MSG
IsErrorMessage(m)   == m.text = ERROR_PREFIX
IsValueMessage(m)   == m.text = "" /\ m.repr # <<>>

----------------------------------------------------------------------------
(* Exceptions: [cls, msg].  Bases(cls) is the class with its base classes, *)
(* as requests.exceptions declares them.                                   *)

NoExc == [cls |-> "none", msg |-> ""]
Exc(cls, msg) == [cls |-> cls, msg |-> msg]

Bases(cls) ==
    CASE cls = "ConnectTimeout" ->
            {"ConnectTimeout", "ConnectionError", "Timeout", "RequestException"}
      [] cls = "ReadTimeout" ->
            {"ReadTimeout", "Timeout", "RequestException"}
      [] cls = "ConnectionError" ->
            {"ConnectionError", "RequestException"}
      [] cls = "ChunkedEncodingError" ->
            {"ChunkedEncodingError", "RequestException"}
      [] cls = "TooManyRedirects" ->
            {"TooManyRedirects", "RequestException"}
      [] cls = "HTTPError" ->
            {"HTTPError", "RequestException"}
      \* requests >= 2.27: response.json() raises requests.exceptions.JSONDecodeError
      [] cls = "requests.JSONDecodeError" ->
            {"requests.JSONDecodeError", "InvalidJSONError", "RequestException",
             "json.JSONDecodeError", "ValueError"}
      \* requests < 2.27: response.json() raises the json module's own error
      [] cls = "json.JSONDecodeError" ->
            {"json.JSONDecodeError", "ValueError"}
      [] OTHER -> {}

IsInstance(e, cls) == cls \in Bases(e.cls)

\* the classes response.json() can raise on an undecodable body, by library version
JSON_ERROR_CLASSES == {"requests.JSONDecodeError", "json.JSONDecodeError"}

----------------------------------------------------------------------------
(* HTTP requests and responses.                                            *)

Request(method, u, hdrs, body) ==
    [method |-> method, url |-> u, headers |-> hdrs, body |-> body]
NoRequest == Request("none", url, <<>>, <<>>)

\* a request on the wire: like Request, with resend telling whether it carries
\* the body of the request the script built (a redirected request carries
\* that body or none)
Hop(method, u, hdrs, resend) ==
    [method |-> method, url |-> u, headers |-> hdrs, resend |-> resend]
NoHop == Hop("none", url, <<>>, FALSE)

\* where a redirecting server points to
LOCATION == [scheme |-> "http", host |-> "162.105.151.213", port |-> 2000,
             path |-> "/elsewhere"]

NoResponse == [status |-> 0, body |-> <<>>]

\* statuses a server may answer with
Statuses == {200, 404, 500, 302, 307}
REDIRECT_STATI == {301, 302, 303, 307, 308}

\* Response.is_redirect: a Location header and a redirect status
IsRedirect(st, location) == location /\ st \in REDIRECT_STATI

\* SessionRedirectMixin.rebuild_method and the purge of the body
RedirectedRequest(req, st) ==
    LET method == IF st \in {302, 303} \/ (st = 301 /\ req.method = "POST")
                  THEN "GET" ELSE req.method
        keep   == st \in {307, 308}
    IN Hop(method, LOCATION,
           IF keep THEN req.headers
           ELSE SelectSeq(req.headers, LAMBDA h : h[1] # "Content-Type"),
           keep /\ req.resend)

\* JSON values a server may answer with
ServerValues ==
    { PyDict(<< <<"displayId", PyInt(1002)>>, <<"title", PyStr("Example")>> >>),
      PyDict(<< <<"error", PyStr("NO_SUCH_PROBLEM")>> >>),
      PyDict(<<>>),
      PyBool(FALSE) }

\* {"displayId":1002,"title":"Example"}, token by token
ScenarioBody ==
    <<LBRACE, Tok("str", "displayId", 0), COLON, Tok("num", "", 1002), COMMA,
      Tok("str", "title", 0), COLON, Tok("str", "Example", 0), RBRACE>>

\* {"a":1,"a":2}: a repeated key
DuplicateKeyBody ==
    <<LBRACE, Tok("str", "a", 0), COLON, Tok("num", "", 1), COMMA,
      Tok("str", "a", 0), COLON, Tok("num", "", 2), RBRACE>>

\* bodies that are no JSON text: empty, an HTML page, a truncated object
InvalidBodies ==
    { <<>>,
      <<Tok("junk", "<html>", 0)>>,
      <<LBRACE, Tok("str", "displayId", 0), COLON>> }

Bodies == {JsonDumps(v) : v \in ServerValues}
          \cup {ScenarioBody, DuplicateKeyBody} \cup InvalidBodies

----------------------------------------------------------------------------
(* The script.                                                             *)

\* after lines 16-36 have run: the constants are bound, nothing is sent
Init ==
    /\ pc = "start"
    /\ data = dataLiteral
    /\ postCalls = 0
    /\ issued = 0
    /\ firstReq = NoRequest
    /\ lastReq = NoHop
    /\ phase = "none"
    /\ idle = 0
    /\ elapsed = 0
    /\ chunks = 0
    /\ status = 0
    /\ redirects = 0
    /\ heads = 0
    /\ response = NoResponse
    /\ exc = NoExc
    /\ stdout = <<>>


\* faulty variant of CallPost: headers=headers is left out of the call
CallPostNoHeaders ==
    /\ pc = "start"
    /\ pc' = "in_post"
    /\ postCalls' = postCalls + 1
    /\ firstReq' = Request("POST", url, <<>>, JsonDumps(PyDict(data)))
    /\ lastReq' = Hop("POST", url, <<>>, TRUE)
    /\ issued' = issued + 1
    /\ phase' = "connect"
    /\ idle' = 0
    /\ elapsed' = 0
    /\ UNCHANGED <<data, chunks, status, redirects, heads, response, exc, stdout>>

\* line 39: requests.post(url, headers=headers, data=json.dumps(data), timeout=10)
\* serializes the payload, builds the request and starts connecting
CallPost ==
    /\ pc = "start"
    /\ pc' = "in_post"
    /\ postCalls' = postCalls + 1
    /\ firstReq' = Request("POST", url, headers, JsonDumps(PyDict(data)))
    /\ lastReq' = Hop("POST", url, headers, TRUE)
    /\ issued' = issued + 1
    /\ phase' = "connect"
    /\ idle' = 0
    /\ elapsed' = 0
    /\ UNCHANGED <<data, chunks, status, redirects, heads, response, exc, stdout>>

\* one unit of time passes while requests.post blocks on the socket
Tick ==
    /\ pc = "in_post"
    /\ idle < TIMEOUT
    /\ elapsed < MaxElapsed
    /\ idle' = idle + 1
    /\ elapsed' = elapsed + 1
    /\ UNCHANGED <<pc, data, postCalls, issued, firstReq, lastReq, phase, chunks,
                   status, redirects, heads, response, exc, stdout>>

\* requests.post is left, by return or by exception: its socket and the
\* timers on it are gone
LeaveCall ==
    /\ phase' = "none"
    /\ idle' = 0
    /\ elapsed' = 0
    /\ chunks' = 0
    /\ status' = 0

\* requests.post raises e: control leaves the try body
Raise(e) ==
    /\ pc' = "raised"
    /\ exc' = e
    /\ LeaveCall
    /\ UNCHANGED <<data, postCalls, issued, firstReq, lastReq, redirects,
                   response, stdout>>

\* the connect timeout (timeout=10) expires: ConnectTimeout
ConnectTimedOut ==
    /\ pc = "in_post" /\ phase = "connect"
    /\ idle = TIMEOUT
    /\ Raise(Exc("ConnectTimeout", "Connection to 162.105.151.213 timed out."))
    /\ UNCHANGED heads

\* connection refused, host unreachable: ConnectionError
ConnectFailed ==
    /\ pc = "in_post" /\ phase = "connect"
    /\ idle < TIMEOUT
    /\ Raise(Exc("ConnectionError", "Connection refused"))
    /\ UNCHANGED heads

\* the connection is established and the request is written to it
Connected ==
    /\ pc = "in_post" /\ phase = "connect"
    /\ idle < TIMEOUT
    /\ phase' = "headers"
    /\ idle' = 0
    /\ UNCHANGED <<pc, data, postCalls, issued, firstReq, lastReq, elapsed, chunks,
                   status, redirects, heads, response, exc, stdout>>

\* some bytes arrive without completing what is awaited: the read timeout,
\* a timeout of the socket's recv, starts afresh
PartialRead ==
    /\ pc = "in_post" /\ phase \in {"headers", "body"}
    /\ idle < TIMEOUT
    /\ chunks < MaxChunks
    /\ chunks' = chunks + 1
    /\ idle' = 0
    /\ UNCHANGED <<pc, data, postCalls, issued, firstReq, lastReq, phase, elapsed,
                   status, redirects, heads, response, exc, stdout>>

\* no byte of the response head for timeout=10: ReadTimeout
ReadTimedOut ==
    /\ pc = "in_post" /\ phase = "headers"
    /\ idle = TIMEOUT
    /\ Raise(Exc("ReadTimeout", "Read timed out. (read timeout=10)"))
    /\ UNCHANGED heads

\* the connection is reset, or what arrives is no HTTP response: ConnectionError
ConnectionAborted ==
    /\ pc = "in_post" /\ phase = "headers"
    /\ idle < TIMEOUT
    /\ Raise(Exc("ConnectionError", "Connection aborted."))
    /\ UNCHANGED heads

\* the head of a response that is no redirect arrives; its body follows
HeadersReceived ==
    /\ pc = "in_post" /\ phase = "headers"
    /\ idle < TIMEOUT
    /\ \E st \in Statuses, location \in BOOLEAN :
          /\ ~IsRedirect(st, location)
          /\ status' = st
    /\ heads' = heads + 1
    /\ phase' = "body"
    /\ idle' = 0
    /\ UNCHANGED <<pc, data, postCalls, issued, firstReq, lastReq, elapsed, chunks,
                   redirects, response, exc, stdout>>

\* a redirect arrives (its body is drained and dropped) and is followed:
\* Session.resolve_redirects issues the rebuilt request
FollowRedirect ==
    /\ pc = "in_post" /\ phase = "headers"
    /\ idle < TIMEOUT
    /\ redirects < DEFAULT_REDIRECT_LIMIT
    /\ \E st \in Statuses, location \in BOOLEAN :
          /\ IsRedirect(st, location)
          /\ lastReq' = RedirectedRequest(lastReq, st)
    /\ issued' = issued + 1
    /\ redirects' = redirects + 1
    /\ heads' = heads + 1
    /\ phase' = "connect"
    /\ idle' = 0
    /\ UNCHANGED <<pc, data, postCalls, firstReq, elapsed, chunks, status,
                   response, exc, stdout>>

\* a redirect arrives after max_redirects were followed: TooManyRedirects
TooManyRedirects ==
    /\ pc = "in_post" /\ phase = "headers"
    /\ idle < TIMEOUT
    /\ redirects >= DEFAULT_REDIRECT_LIMIT
    /\ \E st \in Statuses, location \in BOOLEAN : IsRedirect(st, location)
    /\ Raise(Exc("TooManyRedirects", "Exceeded 30 redirects."))
    /\ heads' = heads + 1

\* no byte of the body for timeout=10: Response.iter_content turns urllib3's
\* ReadTimeoutError into ConnectionError
BodyStalled ==
    /\ pc = "in_post" /\ phase = "body"
    /\ idle = TIMEOUT
    /\ Raise(Exc("ConnectionError", "Read timed out."))
    /\ UNCHANGED heads

\* the body ends early or its framing is wrong: ChunkedEncodingError
BodyBroken ==
    /\ pc = "in_post" /\ phase = "body"
    /\ idle < TIMEOUT
    /\ Raise(Exc("ChunkedEncodingError", "Connection broken: IncompleteRead"))
    /\ UNCHANGED heads


\* faulty variant of PostReturns: response.raise_for_status() before the response is used
PostReturnsRaiseForStatus ==
    /\ pc = "in_post" /\ phase = "body"
    /\ idle < TIMEOUT
    /\ IF status >= 400
       THEN /\ pc' = "raised"
            /\ exc' = Exc("HTTPError", "Client or Server Error")
            /\ response' = response
       ELSE /\ \E body \in Bodies : response' = [status |-> status, body |-> body]
            /\ pc' = "returned"
            /\ exc' = exc
    /\ LeaveCall
    /\ UNCHANGED <<data, postCalls, issued, firstReq, lastReq, redirects, heads,
                   stdout>>

\* the body is complete: requests.post returns the Response (line 39)
PostReturns ==
    /\ pc = "in_post" /\ phase = "body"
    /\ idle < TIMEOUT
    /\ \E body \in Bodies : response' = [status |-> status, body |-> body]
    /\ pc' = "returned"
    /\ LeaveCall
    /\ UNCHANGED <<data, postCalls, issued, firstReq, lastReq, redirects, heads, exc,
                   stdout>>

\* line 40: print(response.json()); an undecodable body raises inside the try
DecodeAndPrint ==
    /\ pc = "returned"
    /\ LET r == JsonLoads(response.body)
       IN IF r.ok
          THEN /\ stdout' = Append(stdout, ValueMessage(r.value))
               /\ pc' = "done"
               /\ exc' = exc
          ELSE /\ \E cls \in JSON_ERROR_CLASSES :
                     exc' = Exc(cls, "Expecting value: line 1 column 1 (char 0)")
               /\ pc' = "raised"
               /\ stdout' = stdout
    /\ UNCHANGED <<data, postCalls, issued, firstReq, lastReq, phase, idle, elapsed,
                   chunks, status, redirects, heads, response>>



\* faulty variant of ExceptTimeout: the handler is `pass`
ExceptTimeoutSilent ==
    /\ pc = "raised"
    /\ IsInstance(exc, "Timeout")
    /\ pc' = "done"
    /\ UNCHANGED <<data, postCalls, issued, firstReq, lastReq, phase, idle, elapsed,
                   chunks, status, redirects, heads, response, exc, stdout>>

\* faulty variant of ExceptTimeout: the handler goes back to the call (a retry)
ExceptTimeoutRetry ==
    /\ pc = "raised"
    /\ IsInstance(exc, "Timeout")
    /\ stdout' = Append(stdout, TimeoutMessage)
    /\ pc' = "start"
    /\ UNCHANGED <<data, postCalls, issued, firstReq, lastReq, phase, idle, elapsed,
                   chunks, status, redirects, heads, response, exc>>

\* faulty variant of ExceptTimeout: the handler prints the generic message
ExceptTimeoutGeneric ==
    /\ pc = "raised"
    /\ IsInstance(exc, "Timeout")
    /\ stdout' = Append(stdout, ErrorMessage(exc))
    /\ pc' = "done"
    /\ UNCHANGED <<data, postCalls, issued, firstReq, lastReq, phase, idle, elapsed,
                   chunks, status, redirects, heads, response, exc>>

\* lines 41-42: except requests.exceptions.Timeout
ExceptTimeout ==
    /\ pc = "raised"
    /\ IsInstance(exc, "Timeout")
    /\ stdout' = Append(stdout, TimeoutMessage)
    /\ pc' = "done"
    /\ UNCHANGED <<data, postCalls, issued, firstReq, lastReq, phase, idle, elapsed,
                   chunks, status, redirects, heads, response, exc>>


\* faulty variant of ExceptRequestException: the clause is `except Exception as e`
ExceptAnyException ==
    /\ pc = "raised"
    /\ ~IsInstance(exc, "Timeout")
    /\ stdout' = Append(stdout, ErrorMessage(exc))
    /\ pc' = "done"
    /\ UNCHANGED <<data, postCalls, issued, firstReq, lastReq, phase, idle, elapsed,
                   chunks, status, redirects, heads, response, exc>>

\* lines 43-44: except requests.exceptions.RequestException as e
ExceptRequestException ==
    /\ pc = "raised"
    /\ ~IsInstance(exc, "Timeout")
    /\ IsInstance(exc, "RequestException")
    /\ stdout' = Append(stdout, ErrorMessage(exc))
    /\ pc' = "done"
    /\ UNCHANGED <<data, postCalls, issued, firstReq, lastReq, phase, idle, elapsed,
                   chunks, status, redirects, heads, response, exc>>

\* no except clause matches: the exception leaves the script, which ends
\* with a traceback on stderr
Uncaught ==
    /\ pc = "raised"
    /\ ~IsInstance(exc, "Timeout")
    /\ ~IsInstance(exc, "RequestException")
    /\ pc' = "crashed"
    /\ UNCHANGED <<data, postCalls, issued, firstReq, lastReq, phase, idle, elapsed,
                   chunks, status, redirects, heads, response, exc, stdout>>

Next ==
    \/ CallPost
    \/ Tick
    \/ ConnectTimedOut
    \/ ConnectFailed
    \/ Connected
    \/ PartialRead
    \/ ReadTimedOut
    \/ ConnectionAborted
    \/ HeadersReceived
    \/ FollowRedirect
    \/ TooManyRedirects
    \/ BodyStalled
    \/ BodyBroken
    \/ PostReturns
    \/ DecodeAndPrint
    \/ ExceptTimeout
    \/ ExceptRequestException
    \/ Uncaught

Spec == Init /\ [][Next]_vars

\* the statements of the script itself, as opposed to what happens inside
\* the blocked library call
ScriptStep ==
    CallPost \/ DecodeAndPrint \/ ExceptTimeout \/ ExceptRequestException \/ Uncaught

\* the interpreter always goes on to run the script's next statement
FairSpec == Spec /\ WF_vars(ScriptStep)

----------------------------------------------------------------------------
(* Properties.                                                             *)

\* the run is over, normally or not
Finished == pc \in {"done", "crashed"}

\* the timeouts of requests.post: the deadline passed while connecting or
\* while waiting for the response head
TimedOut == exc.cls \in {"ConnectTimeout", "ReadTimeout"}

\* requests.post raised (it never returned a response) something that is no timeout
RequestFailed == exc # NoExc /\ response = NoResponse /\ ~TimedOut

\* bodies that are JSON text
ValidBodies == Bodies \ InvalidBodies

\* the value each valid body stands for, written out independently of JsonLoads
ExpectedValue(body) ==
    IF body = DuplicateKeyBody THEN PyDict(<< <<"a", PyInt(2)>> >>)
    ELSE CHOOSE v \in ServerValues : JsonDumps(v) = body

\* the payload of section 3 of the specification: ten keys
ExpectedPayload ==
    << <<"displayId", PyInt(1002)>>,
       <<"discussionCount", PyBool(TRUE)>>,
       <<"judgeInfo", PyBool(TRUE)>>,
       <<"judgeInfoToBePreprocessed", PyBool(TRUE)>>,
       <<"lastSubmissionAndLastAcceptedSubmission", PyBool(TRUE)>>,
       <<"localizedContentsOfLocale", PyStr("zh_CN")>>,
       <<"permissionOfCurrentUser", PyBool(TRUE)>>,
       <<"samples", PyBool(TRUE)>>,
       <<"statistics", PyBool(TRUE)>>,
       <<"tagsOfLocale", PyStr("zh_CN")>> >>

(* C1, as stated: in every execution exactly one HTTP request is sent;    *)
(* whatever its outcome no second request is ever issued.                  *)
C1_ExactlyOneRequest == issued <= 1

(* C1, amended: the script calls requests.post exactly once and no step    *)
(* loops back to the call; after a timeout or any other failure no further *)
(* request is issued.  The only further requests are the ones the library  *)
(* issues while following a redirect, one per redirect followed and at     *)
(* most DEFAULT_REDIRECT_LIMIT of them.                                    *)
C1_OneCallNoRetry ==
    /\ [](postCalls <= 1)
    /\ [](pc # "start" => postCalls = 1 /\ issued = 1 + redirects)
    /\ [](redirects <= 30)
    /\ [][pc # "start" => pc' # "start"]_vars
    /\ [][exc # NoExc => issued' = issued /\ postCalls' = postCalls]_vars
    /\ [][pc # "start" /\ issued' # issued =>
            /\ pc = "in_post" /\ phase = "headers"
            /\ redirects' = redirects + 1
            /\ issued' = issued + 1]_vars

\* C1's case: a request timed out, the run ended, and one request was sent
C1_Witness ==
    /\ pc = "done" /\ exc.cls = "ReadTimeout"
    /\ postCalls = 1 /\ issued = 1

C3_ErrorPrinted ==
    /\ [](RequestFailed => pc \in {"raised", "done"})
    /\ [](RequestFailed /\ pc = "raised" => stdout = <<>>)
    /\ [](RequestFailed /\ pc = "done" =>
            /\ stdout = <<[text |-> ERROR_PREFIX, detail |-> exc.msg, repr |-> <<>>]>>
            /\ exc.msg # ""
            /\ ~IsTimeoutMessage(stdout[1]))
    /\ [][RequestFailed => issued' = issued /\ postCalls' = postCalls]_vars
    /\ (RequestFailed ~> (pc = "done" /\ Len(stdout) = 1 /\ IsErrorMessage(stdout[1])))

\* C3's case: the connection was refused and the description was printed
C3_Witness ==
    /\ pc = "done" /\ exc = Exc("ConnectionError", "Connection refused")
    /\ stdout = <<[text |-> ERROR_PREFIX, detail |-> "Connection refused", repr |-> <<>>]>>

(* C4: whenever the server returns a response whose body is valid JSON,    *)
(* the script prints exactly the value that body stands for, and neither   *)
(* the timeout message nor the error message.                              *)
C4_DecodedValuePrinted ==
    (response # NoResponse /\ response.body \in ValidBodies /\ pc # "returned") =>
        /\ pc = "done"
        /\ exc = NoExc
        /\ stdout = <<[text |-> "", detail |-> "",
                       repr |-> PyStrOf(ExpectedValue(response.body))]>>
        /\ ~IsTimeoutMessage(stdout[1]) /\ ~IsErrorMessage(stdout[1])

\* C4's case: {"displayId":1002,"title":"Example"} came back with status 200
\* and {'displayId': 1002, 'title': 'Example'} was printed
C4_Witness ==
    /\ pc = "done"
    /\ response = [status |-> 200, body |-> ScenarioBody]
    /\ stdout = <<[text |-> "", detail |-> "", repr |->
                    <<LBRACE, Tok("sq", "displayId", 0), COLON, Tok("num", "", 1002),
                      COMMA, Tok("sq", "title", 0), COLON, Tok("sq", "Example", 0),
                      RBRACE>>]>>

(* C5: the body of the outgoing request, decoded as JSON, equals the fixed *)
(* payload field for field, ten keys with no extra and no missing one, and *)
(* the payload is never mutated between construction and the end.          *)
C5_PayloadOnWire ==
    /\ DictEq(data, ExpectedPayload) /\ Len(data) = 10
    /\ issued >= 1 =>
          LET sent == JsonLoads(firstReq.body)
          IN /\ sent.ok
             /\ sent.value.t = "dict"
             /\ Len(sent.value.items) = 10
             /\ DictEq(sent.value.items, ExpectedPayload)
             /\ lastReq.method = "POST" => lastReq.resend

\* C5's case: the request went out and the run ended
C5_Witness ==
    /\ pc = "done" /\ issued = 1
    /\ Len(firstReq.body) = 41
    /\ firstReq.body[4] = Tok("num", "", 1002)

(* C6, as stated: every outgoing request is an HTTP POST to the fixed URL  *)
(* and carries the header Content-Type: application/json.                  *)
C6_EveryRequestIsThePost ==
    issued >= 1 =>
        /\ lastReq.method = "POST"
        /\ lastReq.url.path = "/api/problem/getProblem"
        /\ \E i \in 1..Len(lastReq.headers) :
              lastReq.headers[i] = <<"Content-Type", "application/json">>

(* C6, amended: the request the script itself issues, the first on the     *)
(* wire and the only one unless the server redirects, is an HTTP POST to   *)
(* the fixed URL ending in /api/problem/getProblem with the header         *)
(* Content-Type: application/json; a request the library issues to follow  *)
(* a redirect goes to the redirect's Location instead.                     *)
C6_FirstRequestIsThePost ==
    issued >= 1 =>
        /\ firstReq.method = "POST"
        /\ firstReq.url = [scheme |-> "http", host |-> "162.105.151.213",
                           port |-> 2000, path |-> "/api/problem/getProblem"]
        /\ \E i \in 1..Len(firstReq.headers) :
              firstReq.headers[i] = <<"Content-Type", "application/json">>
        /\ redirects = 0 =>
              lastReq = Hop(firstReq.method, firstReq.url, firstReq.headers, TRUE)
        /\ redirects > 0 => lastReq.url = LOCATION

\* C6's case: the request went out, was answered without a redirect, and the run ended
C6_Witness ==
    /\ pc = "done" /\ issued = 1 /\ response # NoResponse
    /\ lastReq.method = "POST" /\ lastReq.url.path = "/api/problem/getProblem"

(* C7, as stated: when the server answers with HTTP success but a body     *)
(* that is not valid JSON, neither handler handles the decoding failure:   *)
(* nothing is printed and the run ends with an uncaught failure.           *)
C7_DecodeFailureUncaught ==
    (response.status = 200 /\ response.body \in InvalidBodies /\ Finished) =>
        pc = "crashed" /\ stdout = <<>>

(* C7, amended: when the server answers with HTTP success but a body that  *)
(* is not valid JSON, the script prints neither a decoded value nor the    *)
(* timeout message, and the rest depends on the class response.json()      *)
(* raises.  With requests.exceptions.JSONDecodeError (requests 2.27 and    *)
(* later), which is a RequestException, the second handler prints the      *)
(* request-error message with the decoder's description and the run ends   *)
(* normally; with the json module's own JSONDecodeError (older requests)   *)
(* no handler matches, nothing is printed and the run ends with the        *)
(* uncaught decoding failure.                                              *)
C7_DecodeFailureByVersion ==
    (response.status = 200 /\ response.body \in InvalidBodies /\ pc # "returned") =>
        /\ exc.cls \in {"requests.JSONDecodeError", "json.JSONDecodeError"}
        /\ \A i \in 1..Len(stdout) :
              ~IsValueMessage(stdout[i]) /\ ~IsTimeoutMessage(stdout[i])
        /\ (exc.cls = "requests.JSONDecodeError" /\ Finished) =>
              /\ pc = "done"
              /\ stdout = <<[text |-> ERROR_PREFIX, detail |-> exc.msg, repr |-> <<>>]>>
        /\ exc.cls = "json.JSONDecodeError" =>
              /\ pc \in {"raised", "crashed"}
              /\ stdout = <<>>

\* C7's case: an HTML page came back with status 200 and the run ended
\* normally with the request-error message
C7_Witness ==
    /\ pc = "done"
    /\ response = [status |-> 200, body |-> <<Tok("junk", "<html>", 0)>>]
    /\ Len(stdout) = 1 /\ IsErrorMessage(stdout[1])

\* the other outcome of C7's case: the same page, and the run crashed
C7_WitnessCrash ==
    /\ pc = "crashed"
    /\ response = [status |-> 200, body |-> <<Tok("junk", "<html>", 0)>>]
    /\ stdout = <<>>

(* C8, as stated: the timeout of 10 bounds the whole round trip, so the    *)
(* call never blocks longer than 10 time units in total.                   *)
C8_RoundTripBounded == pc = "in_post" => elapsed <= 10

(* C8, amended: the timeout of 10 bounds each single wait on the socket    *)
(* (the connect, and each wait for further bytes of the response), not the *)
(* round trip: no single wait lasts longer than 10 time units, a wait that *)
(* reaches 10 while connecting or waiting for the response head takes the  *)
(* timeout branch, and one that reaches 10 in the middle of the body is    *)
(* raised as a ConnectionError, the request-error branch.                  *)
C8_EachWaitBounded ==
    /\ [](idle <= 10)
    /\ [](pc = "in_post" /\ idle = 10 => ~ENABLED Tick)
    /\ [][pc = "in_post" /\ idle = 10 /\ phase \in {"connect", "headers"} =>
            pc' = "raised" /\ exc'.cls \in {"ConnectTimeout", "ReadTimeout"}]_vars
    /\ [][pc = "in_post" /\ idle = 10 /\ phase = "body" =>
            pc' = "raised" /\ exc'.cls = "ConnectionError"]_vars
    /\ [][idle' > idle => idle' = idle + 1 /\ elapsed' = elapsed + 1]_vars

\* C8's case: the call has been blocked for more than 10 time units and no
\* single wait has reached 10
C8_Witness ==
    /\ pc = "in_post" /\ elapsed > 10 /\ idle < 10

(* C9: every execution that terminates normally has written exactly one    *)
(* message to standard output, of exactly one of the three kinds; none     *)
(* prints two, and no normally terminating one prints none.                *)
C9_ExactlyOneMessage ==
    /\ Len(stdout) <= 1
    /\ pc = "done" =>
          /\ Len(stdout) = 1
          /\ Cardinality({k \in {"value", "timeout", "error"} :
                 \/ k = "value" /\ IsValueMessage(stdout[1])
                 \/ k = "timeout" /\ IsTimeoutMessage(stdout[1])
                 \/ k = "error" /\ IsErrorMessage(stdout[1])}) = 1
    /\ pc # "done" => stdout = <<>>

\* C9's case: a run that ended normally with the error message alone
C9_Witness ==
    /\ pc = "done" /\ Len(stdout) = 1 /\ IsErrorMessage(stdout[1])
    /\ exc.cls = "ChunkedEncodingError"

(* C10, as stated: the status of a received response is never consulted:   *)
(* a response with any status goes on to the success branch, and none      *)
(* produces the request-error message.                                     *)
C10_AnyStatusDelivered ==
    /\ (pc = "in_post" /\ heads > 0) => phase = "body"
    /\ exc.cls # "TooManyRedirects"

(* C10, amended: the script never consults the status of the response      *)
(* requests.post returns: with any status (4xx and 5xx included) a body    *)
(* that decodes as JSON is printed through the success branch and never    *)
(* produces the request-error message.  The library does consult the       *)
(* status of a response with a Location header: a 301, 302, 303, 307 or    *)
(* 308 is followed instead of returned, and the one after the 30th         *)
(* followed raises TooManyRedirects, which prints the request-error        *)
(* message.                                                                *)
C10_ReturnedStatusIgnored ==
    /\ [](response # NoResponse =>
            /\ response.status \in Statuses
            /\ (response.body \in ValidBodies /\ Finished) =>
                  /\ pc = "done"
                  /\ Len(stdout) = 1
                  /\ IsValueMessage(stdout[1]) /\ ~IsErrorMessage(stdout[1]))
    /\ [][pc = "in_post" /\ phase = "body" /\ idle < TIMEOUT /\ pc' # "in_post" =>
            \/ pc' = "returned" /\ response'.status = status
            \/ pc' = "raised" /\ exc'.cls = "ChunkedEncodingError"]_vars
    /\ [][heads' # heads =>
            \/ phase' = "body" /\ status' \in Statuses
            \/ phase' = "connect" /\ redirects' = redirects + 1
            \/ exc'.cls = "TooManyRedirects" /\ redirects = 30]_vars

\* C10's case: a 500 whose body is JSON was printed as a value
C10_Witness ==
    /\ pc = "done" /\ response.status = 500
    /\ response.body \in ValidBodies
    /\ Len(stdout) = 1 /\ IsValueMessage(stdout[1])

====
